---- MODULE Spec2Model ----
(***************************************************************************)
(* MinerX QRIS Service (src/main.py): a FastAPI application with one HTTP  *)
(* middleware (secure_internal_api) and three routes (root, create_qris,   *)
(* check_payment_status) in front of the qris_payment collaborator.        *)
(*                                                                         *)
(* Each client holds at most one connection.  A request moves through      *)
(*   idle -> gate (middleware) -> route (router + handler) -> done -> idle *)
(* and requests of different clients interleave at these points.  The      *)
(* handlers contain no await, so a handler runs as one step.               *)
(***************************************************************************)
EXTENDS Naturals, Sequences, FiniteSets

VARIABLES secret, conn

vars == <<secret, conn>>

(* ------------------------------- bounds -------------------------------- *)

MaxAmount == 2

Clients == {"c1", "c2"}

Amounts == 1..MaxAmount

Refs == {"ORD-1", "ORD-2"}

ExcTexts == {"connection timed out", "invalid credentials"}

(* --------------------------- JSON body values -------------------------- *)

JInt(n) == [t |-> "int", n |-> n, s |-> ""]

JStr(s) == [t |-> "str", n |-> 0, s |-> s]

JMissing == [t |-> "missing", n |-> 0, s |-> ""]

DecimalStr == <<"0", "1", "2", "3", "4", "5", "6", "7", "8", "9">>

Str(n) == DecimalStr[n + 1]

IsNumeric(s) == \E n \in 0..9 : Str(n) = s

ParseInt(s) == CHOOSE n \in 0..9 : Str(n) = s

(* ------------------------------ settings ------------------------------- *)

\* os.getenv("INTERNAL_API_KEY") is None when the variable is not set.
NoSecret == "<None>"

\* request.headers.get("X-API-KEY") is None when the header is not sent.
NoHeader == "<no header>"

GoodKey == "s3cret"

BadKey == "wrong"

Secrets == {NoSecret, GoodKey}

Headers == {NoHeader, "", GoodKey, BadKey}

(* ------------------------------ requests ------------------------------- *)

RawAmounts == {JMissing, JStr("abc")} \cup {JInt(a) : a \in Amounts}
                  \cup {JStr(Str(a)) : a \in Amounts}

RawRefs == {JMissing} \cup {JStr(r) : r \in Refs}

NoBody == [amount |-> JMissing, order_ref |-> JMissing]

Bodies == [amount : RawAmounts, order_ref : RawRefs]

Request(m, p, k, b) == [method |-> m, path |-> p, key |-> k, body |-> b]

\* The requests the clients send: every header with every body on the two
\* POST routes, and the other method/path combinations without a body.
Requests ==
    {Request("POST", p, k, b) :
        p \in {"/create-qris", "/check-payment"}, k \in Headers, b \in Bodies}
    \cup {Request("GET", p, k, NoBody) :
        p \in {"/create-qris", "/check-payment"}, k \in {NoHeader, GoodKey}}
    \cup {Request(m, "/", k, NoBody) :
        m \in {"GET", "POST"}, k \in {NoHeader, GoodKey}}
    \cup {Request("GET", "/other", NoHeader, NoBody)}

(* ------------------------- external collaborator ----------------------- *)

NoResult ==
    [kind |-> "none", text |-> "", qr_image |-> "absent",
     success |-> "absent", data |-> "absent"]

Raises(text) == [NoResult EXCEPT !.kind = "raise", !.text = text]

\* generate_qr returns a dict; qr_image is the value of its 'qr_image' key:
\* "absent" (no such key), "empty" (None) or "img" (a PIL image).
GenReturns(img) == [NoResult EXCEPT !.kind = "return", !.qr_image = img]

\* check_payment returns a dict; success is the value of its 'success' key:
\* "absent", "true" or "false"; data is "absent" (no such key), "null" (None, not a dict),
\* "nostatus" (a dict without 'status') or the string under data['status'].
CheckReturns(succ, data) ==
    [NoResult EXCEPT !.kind = "return", !.success = succ, !.data = data]

GenOutcomes ==
    {Raises(t) : t \in ExcTexts} \cup {GenReturns(i) : i \in {"absent", "empty", "img"}}

CheckOutcomes ==
    {Raises(t) : t \in ExcTexts}
    \cup {CheckReturns(s, d) :
            s \in {"absent", "true", "false"},
            d \in {"absent", "null", "nostatus", "PAID", "EXPIRED"}}

Call(op, ref, amount) == [op |-> op, order_ref |-> ref, amount |-> amount]

(* ------------------------------ responses ------------------------------ *)

NoResponse ==
    [status |-> 0, detail |-> <<>>, order_ref |-> JMissing, amount |-> JMissing,
     qr_image_base64 |-> <<>>, pstatus |-> "", message |-> ""]

\* An exception that leaves the @app.middleware("http") function is outside
\* the router's exception handlers: the server answers with a plain
\* "Internal Server Error", whatever the exception is.
ServerError(exc) == [NoResponse EXCEPT !.status = 500, !.message = "Internal Server Error"]

\* An HTTPException raised inside a route handler becomes a JSON response
\* {"detail": ...} with the exception's status code.
HTTPException(status, detail) == [NoResponse EXCEPT !.status = status, !.detail = detail]

\* Request body that fails the pydantic model: FastAPI's 422 response.
ValidationError == HTTPException(422, <<"value is not a valid / field required">>)

NotFound == HTTPException(404, <<"Not Found">>)

MethodNotAllowed == HTTPException(405, <<"Method Not Allowed">>)

\* Does the text appear in the detail (an f-string is the sequence of its parts)?
Contains(detail, text) == \E i \in DOMAIN detail : detail[i] = text

(* ------------------------------- the gate ------------------------------ *)

IsProtectedAll(path) == TRUE

IsProtected(path) == path \in {"/create-qris", "/check-payment"}

GateNoCompare(api_key, configured) ==
    IF api_key = NoHeader \/ api_key = "" THEN "HTTPException" ELSE "pass"

\* not api_key or not hmac.compare_digest(api_key, settings.INTERNAL_API_KEY)
\* compare_digest(str, None) raises TypeError.
Gate(api_key, configured) ==
    IF api_key = NoHeader \/ api_key = "" THEN "HTTPException"
    ELSE IF configured = NoSecret THEN "TypeError"
    ELSE IF api_key # configured THEN "HTTPException"
    ELSE "pass"

Idle ==
    [pc |-> "idle", req |-> Request("GET", "/", NoHeader, NoBody),
     keyChecked |-> FALSE, gate |-> "none", calls |-> <<>>,
     result |-> NoResult, encoded |-> FALSE, resp |-> NoResponse]

Init ==
    /\ secret \in Secrets
    /\ conn = [c \in Clients |-> Idle]

\* A client sends a request.
Receive(c, r) ==
    /\ conn[c].pc = "idle"
    /\ conn' = [conn EXCEPT ![c] = [Idle EXCEPT !.pc = "gate", !.req = r]]
    /\ UNCHANGED secret

\* secure_internal_api
SecureInternalApi(c) ==
    LET x == conn[c]
        g == Gate(x.req.key, secret)
    IN  /\ x.pc = "gate"
        /\ IF IsProtected(x.req.path)
           THEN IF g = "pass"
                THEN conn' = [conn EXCEPT ![c] =
                        [x EXCEPT !.pc = "route", !.keyChecked = TRUE, !.gate = g]]
                ELSE conn' = [conn EXCEPT ![c] =
                        [x EXCEPT !.pc = "done", !.keyChecked = TRUE, !.gate = g,
                                  !.resp = ServerError(g)]]
           ELSE conn' = [conn EXCEPT ![c] = [x EXCEPT !.pc = "route"]]
        /\ UNCHANGED secret

(* --------------------------- request validation ------------------------ *)

Invalid == [ok |-> FALSE, amount |-> 0, order_ref |-> ""]

IntFieldNoCheck(raw) ==
    IF raw.t = "int" THEN [ok |-> TRUE, v |-> raw.n]
    ELSE IF raw.t = "str" /\ IsNumeric(raw.s) THEN [ok |-> TRUE, v |-> ParseInt(raw.s)]
    ELSE [ok |-> TRUE, v |-> 0]

\* amount: int.  A JSON integer is taken as it is, a string of digits is
\* converted to the integer it spells, a missing field or any other string
\* is a validation error.
IntField(raw) ==
    IF raw.t = "int" THEN [ok |-> TRUE, v |-> raw.n]
    ELSE IF raw.t = "str" /\ IsNumeric(raw.s) THEN [ok |-> TRUE, v |-> ParseInt(raw.s)]
    ELSE [ok |-> FALSE, v |-> 0]

\* order_ref: str.  A JSON string is taken as it is, a missing field is a
\* validation error.
StrField(raw) ==
    IF raw.t = "str" THEN [ok |-> TRUE, v |-> raw.s] ELSE [ok |-> FALSE, v |-> ""]

\* CreateQrisRequest and CheckStatusRequest have the same two fields.
Payload(body) ==
    LET a == IntField(body.amount)
        r == StrField(body.order_ref)
    IN  IF a.ok /\ r.ok THEN [ok |-> TRUE, amount |-> a.v, order_ref |-> r.v]
        ELSE Invalid

(* -------------------------------- routes -------------------------------- *)

Routes == {"/", "/create-qris", "/check-payment"}

RouteMethod(path) == IF path = "/" THEN "GET" ELSE "POST"

Matches(r, path) == r.path = path /\ r.method = RouteMethod(path)

Respond(c, x, resp) == conn' = [conn EXCEPT ![c] = [x EXCEPT !.pc = "done", !.resp = resp]]

\* root
Root(c) ==
    LET x == conn[c]
    IN  /\ x.pc = "route"
        /\ Matches(x.req, "/")
        /\ Respond(c, x, [NoResponse EXCEPT !.status = 200,
                            !.message = "MinerX QRIS Service is running"])
        /\ UNCHANGED secret

\* No route for the path (404) or for the method on that path (405).
NoRoute(c) ==
    LET x == conn[c]
    IN  /\ x.pc = "route"
        /\ ~ \E p \in Routes : Matches(x.req, p)
        /\ Respond(c, x, IF x.req.path \in Routes THEN MethodNotAllowed ELSE NotFound)
        /\ UNCHANGED secret

\* f"<prefix>{e}"
ErrorDetailNoText(prefix, e) == <<prefix>>

ErrorDetail(prefix, e) == <<prefix, e>>

\* The collaborator is called once per handler run; nothing is retried.
InvokeRetry(call, out) == IF out.kind = "raise" THEN <<call, call>> ELSE <<call>>

Invoke(call, out) == <<call>>

\* str() of the HTTPException raised inside the try block, which the
\* except Exception clause catches: "" or "<status>: <detail>", depending on
\* the installed framework version.
StrHTTPException == {"", "500: Library QRIS gagal membuat gambar."}

\* not qr_image
NoImageIfAbsent(qr_image) == qr_image = "absent"

NoImage(qr_image) == qr_image \in {"absent", "empty"}

\* qr_image.save(buffered, format="PNG"); base64.b64encode(...).decode('utf-8')
B64Png(qr_image) == "iVBORw0KGgo"

QrisResponseAsText(payload, img_str) ==
    [NoResponse EXCEPT !.status = 200,
        !.order_ref = JStr(payload.order_ref),
        !.amount = JStr(Str(payload.amount)),
        !.qr_image_base64 = <<"data:image/png;base64,", img_str>>]

QrisResponse(payload, img_str) ==
    [NoResponse EXCEPT !.status = 200,
        !.order_ref = JStr(payload.order_ref),
        !.amount = JInt(payload.amount),
        !.qr_image_base64 = <<"data:image/png;base64,", img_str>>]

\* create_qris
CreateQris(c) ==
    LET x == conn[c]
        payload == Payload(x.req.body)
    IN  /\ x.pc = "route"
        /\ Matches(x.req, "/create-qris")
        /\ IF ~ payload.ok
           THEN Respond(c, x, ValidationError)
           ELSE \E out \in GenOutcomes, se \in StrHTTPException :
                  LET y == [x EXCEPT !.result = out,
                               !.calls = Invoke(Call("generate_qr", "", payload.amount), out)]
                      pre == "Error saat generate QR: "
                  IN  IF out.kind = "raise"
                      THEN Respond(c, y, HTTPException(500, ErrorDetail(pre, out.text)))
                      ELSE IF NoImage(out.qr_image)
                      THEN Respond(c, y, HTTPException(500, ErrorDetail(pre, se)))
                      ELSE Respond(c, [y EXCEPT !.encoded = TRUE],
                                   QrisResponse(payload, B64Png(out.qr_image)))
        /\ UNCHANGED secret

Truthy(success) == success = "true"

\* payment_result.get('success') and
\*     payment_result.get('data', {}).get('status') == 'PAID'
\* When success is truthy and data is present but not a dict, the second
\* .get raises AttributeError.
StatusOf(payment_result) ==
    IF ~ Truthy(payment_result.success) THEN "PENDING"
    ELSE IF payment_result.data = "null" THEN "AttributeError"
    ELSE IF payment_result.data = "PAID" THEN "PAID"
    ELSE "PENDING"

StatusResponse(status) == [NoResponse EXCEPT !.status = 200, !.pstatus = status]

\* check_payment_status
CheckPaymentStatus(c) ==
    LET x == conn[c]
        payload == Payload(x.req.body)
    IN  /\ x.pc = "route"
        /\ Matches(x.req, "/check-payment")
        /\ IF ~ payload.ok
           THEN Respond(c, x, ValidationError)
           ELSE \E out \in CheckOutcomes :
                  LET y == [x EXCEPT !.result = out,
                               !.calls = Invoke(Call("check_payment", payload.order_ref,
                                                     payload.amount), out)]
                      pre == "Error saat memeriksa pembayaran: "
                      st == StatusOf(out)
                  IN  IF out.kind = "raise"
                      THEN Respond(c, y, HTTPException(500, ErrorDetail(pre, out.text)))
                      ELSE IF st = "AttributeError"
                      THEN Respond(c, y, HTTPException(500,
                              ErrorDetail(pre, "'NoneType' object has no attribute 'get'")))
                      ELSE Respond(c, y, StatusResponse(st))
        /\ UNCHANGED secret

\* The client has read the response; its connection is free again.
Deliver(c) ==
    /\ conn[c].pc = "done"
    /\ conn' = [conn EXCEPT ![c] = Idle]
    /\ UNCHANGED secret

Next ==
    \E c \in Clients :
        \/ \E r \in Requests : Receive(c, r)
        \/ SecureInternalApi(c)
        \/ Root(c)
        \/ NoRoute(c)
        \/ CreateQris(c)
        \/ CheckPaymentStatus(c)
        \/ Deliver(c)

Spec == Init /\ [][Next]_vars

(* ------------------------------ properties ------------------------------ *)

Protected == {"/create-qris", "/check-payment"}

Finished(c) == conn[c].pc = "done"

PostTo(c, path) == conn[c].req.method = "POST" /\ conn[c].req.path = path

KeyMatches(c) ==
    /\ secret # NoSecret
    /\ conn[c].req.key \notin {NoHeader, ""}
    /\ conn[c].req.key = secret

\* The body has an integer (or digit string) amount and a string order_ref.
WellTyped(body) ==
    /\ body.order_ref.t = "str"
    /\ \/ body.amount.t = "int"
       \/ body.amount.t = "str" /\ body.amount.s \in {Str(n) : n \in 0..9}

\* The collaborator was called for the request of c and threw / returned.
Threw(c) == conn[c].result.kind = "raise"

Returned(c) == conn[c].result.kind = "return"

\* C1: the collaborator is called for a request only after the gate found
\* the request's X-API-KEY equal to the configured secret; a request without
\* the header, with an empty or with a different key causes no call.
C1_CallOnlyBehindGate ==
    \A c \in Clients :
        conn[c].calls # <<>> =>
            /\ conn[c].req.path \in Protected
            /\ conn[c].keyChecked
            /\ KeyMatches(c)

C1_Witness ==
    \E c, d \in Clients :
        /\ Finished(c) /\ PostTo(c, "/create-qris")
        /\ conn[c].req.key = BadKey /\ secret = GoodKey
        /\ WellTyped(conn[c].req.body) /\ conn[c].calls = <<>>
        /\ Finished(d) /\ KeyMatches(d) /\ Len(conn[d].calls) = 1

\* C2: with a secret configured, a request to a protected path whose key is
\* missing or does not match the secret is answered with status 403,
\* whatever its body.
C2_Rejected403 ==
    \A c \in Clients :
        (Finished(c) /\ conn[c].req.path \in Protected
           /\ secret # NoSecret /\ ~ KeyMatches(c)) =>
            conn[c].resp.status = 403

\* C3: when check_payment returns, the response is a 200 with status "PAID"
\* iff success is true and data.status is "PAID", and a 200 with status
\* "PENDING" for every other result.
C3_PaidIff ==
    \A c \in Clients :
        (Finished(c) /\ PostTo(c, "/check-payment") /\ Returned(c)) =>
            /\ conn[c].resp.status = 200
            /\ conn[c].resp.pstatus =
                 IF conn[c].result.success = "true" /\ conn[c].result.data = "PAID"
                 THEN "PAID" ELSE "PENDING"

\* C4: when the collaborator throws for an authenticated, valid request, the
\* response is a 500 whose detail contains the exception's text.
C4_ThrowIs500WithText ==
    \A c \in Clients :
        (Finished(c) /\ Threw(c)) =>
            /\ conn[c].resp.status = 500
            /\ Contains(conn[c].resp.detail, conn[c].result.text)

C4_Witness ==
    \E c, d \in Clients :
        /\ Finished(c) /\ PostTo(c, "/create-qris") /\ Threw(c)
        /\ Finished(d) /\ PostTo(d, "/check-payment") /\ Threw(d)
        /\ conn[c].result.text # conn[d].result.text

\* C5 as stated: a 200 response of /create-qris carries exactly the
\* order_ref and the amount of its request body and a PNG data URI.
C5_EchoExact ==
    \A c \in Clients :
        (Finished(c) /\ PostTo(c, "/create-qris") /\ conn[c].resp.status = 200) =>
            /\ conn[c].resp.order_ref = conn[c].req.body.order_ref
            /\ conn[c].resp.amount = conn[c].req.body.amount
            /\ Len(conn[c].resp.qr_image_base64) = 2
            /\ conn[c].resp.qr_image_base64[1] = "data:image/png;base64,"

\* C5 amended: a 200 response of /create-qris carries the order_ref of its
\* own request, unmodified, and the amount of its own request as a JSON
\* integer: the same integer when the request's amount is one, and the
\* integer it spells when the request's amount is a string of digits;
\* and a PNG data URI.
C5_EchoValidated ==
    \A c \in Clients :
        (Finished(c) /\ PostTo(c, "/create-qris") /\ conn[c].resp.status = 200) =>
            /\ conn[c].resp.order_ref = conn[c].req.body.order_ref
            /\ conn[c].resp.amount.t = "int"
            /\ conn[c].req.body.amount.t = "int" =>
                   conn[c].resp.amount = conn[c].req.body.amount
            /\ conn[c].req.body.amount.t = "str" =>
                   Str(conn[c].resp.amount.n) = conn[c].req.body.amount.s
            /\ Len(conn[c].resp.qr_image_base64) = 2
            /\ conn[c].resp.qr_image_base64[1] = "data:image/png;base64,"

C5_Witness ==
    \E c, d \in Clients :
        /\ Finished(c) /\ PostTo(c, "/create-qris") /\ conn[c].resp.status = 200
        /\ conn[c].req.body.amount.t = "str"
        /\ PostTo(d, "/create-qris") /\ conn[d].pc = "route"
        /\ WellTyped(conn[d].req.body)
        /\ conn[d].req.body.order_ref # conn[c].req.body.order_ref
        /\ conn[d].req.body.amount.t = "int"
        /\ conn[d].req.body.amount.n # conn[c].resp.amount.n

\* C6: when generate_qr returns a result without an image, the response is
\* a 500 whose detail signals the failed QR generation, and no image was
\* encoded.
C6_NoImageIs500 ==
    \A c \in Clients :
        (Finished(c) /\ PostTo(c, "/create-qris") /\ Returned(c)
           /\ conn[c].result.qr_image \in {"absent", "empty"}) =>
            /\ conn[c].resp.status = 500
            /\ Len(conn[c].resp.detail) > 0
            /\ conn[c].resp.detail[1] = "Error saat generate QR: "
            /\ ~ conn[c].encoded
            /\ conn[c].resp.qr_image_base64 = <<>>

C6_Witness ==
    \E c, d \in Clients :
        /\ Finished(c) /\ PostTo(c, "/create-qris") /\ Returned(c)
        /\ conn[c].result.qr_image = "empty" /\ conn[c].resp.status = 500
        /\ Finished(d) /\ PostTo(d, "/create-qris") /\ Returned(d)
        /\ conn[d].result.qr_image = "img" /\ conn[d].encoded

C8_NoSecret403 ==
    secret = NoSecret =>
        \A c \in Clients :
            (Finished(c) /\ conn[c].req.path \in Protected) =>
                /\ conn[c].resp.status = 403
                /\ conn[c].calls = <<>>

\* C9: the key is checked for exactly the requests to /create-qris and
\* /check-payment, and GET / is answered with status 200 and the liveness
\* payload, with or without a key.
C9_GateOnlyOnProtected ==
    \A c \in Clients :
        /\ conn[c].pc \in {"route", "done"} =>
               (conn[c].keyChecked <=> conn[c].req.path \in Protected)
        /\ (Finished(c) /\ conn[c].req.method = "GET" /\ conn[c].req.path = "/") =>
               /\ conn[c].resp.status = 200
               /\ conn[c].resp.message = "MinerX QRIS Service is running"

C9_Witness ==
    \E c, d \in Clients :
        /\ Finished(c) /\ conn[c].req.method = "GET" /\ conn[c].req.path = "/"
        /\ conn[c].req.key = NoHeader /\ conn[c].resp.status = 200
        /\ ~ conn[c].keyChecked
        /\ Finished(d) /\ conn[d].req.path = "/other" /\ ~ conn[d].keyChecked

\* C10: an authenticated, valid request to /create-qris or /check-payment
\* causes exactly one collaborator call, with its own amount (and order_ref),
\* also when the call throws and when another request for the same order
\* is in flight; every other request causes none.
C10_ExactlyOneCall ==
    \A c \in Clients :
        LET x == conn[c]
            served == /\ x.req.method = "POST" /\ x.req.path \in Protected
                      /\ KeyMatches(c) /\ WellTyped(x.req.body)
        IN  /\ Len(x.calls) <= 1
            /\ (Finished(c) /\ served) =>
                  /\ Len(x.calls) = 1
                  /\ x.calls[1].op = IF x.req.path = "/create-qris"
                                     THEN "generate_qr" ELSE "check_payment"
                  /\ x.req.body.amount.t = "int" =>
                         x.calls[1].amount = x.req.body.amount.n
                  /\ x.req.body.amount.t = "str" =>
                         Str(x.calls[1].amount) = x.req.body.amount.s
                  /\ x.req.path = "/check-payment" =>
                         x.calls[1].order_ref = x.req.body.order_ref.s
                  /\ Threw(c) => x.resp.status = 500
            /\ ~ served => x.calls = <<>>

C10_Witness ==
    \E c, d \in Clients :
        /\ c # d
        /\ Finished(c) /\ PostTo(c, "/check-payment") /\ Threw(c)
        /\ Len(conn[c].calls) = 1 /\ conn[c].resp.status = 500
        /\ Finished(d) /\ PostTo(d, "/check-payment") /\ Returned(d)
        /\ Len(conn[d].calls) = 1
        /\ conn[d].req.body.order_ref = conn[c].req.body.order_ref

====
